---- MODULE Spec2Model ----
(***************************************************************************)
(* ElGamal encryption over a prime-order group (aeonflux, elgamal.rs).     *)
(*                                                                         *)
(* The Ristretto group is modelled by the cyclic group of order Order,     *)
(* each element written as its residue; a scalar is an integer modulo      *)
(* Order.  The state is that of a caller which generates a keypair, builds *)
(* a message and a nonce in each of two slots, encrypts, adds, decrypts,   *)
(* and whose scopes holding an Ephemeral end by a return, early or not, or *)
(* by a failure that unwinds them all.                                     *)
(***************************************************************************)
EXTENDS Integers, FiniteSets, Sequences, TLC

\* ---------------------------------------------------------------- bounds
Order == 3

None == <<>>
Some(v) == <<v>>
Slot == {1, 2}
Scalar == 0..(Order - 1)
Point == 0..(Order - 1)

\* ------------------------------------------------- group (curve25519_dalek)
\* the basepoint: a generator of the cyclic group (Order - 1 is coprime to Order)
Generator == Order - 1

PointAdd(p, q) == (p + q) % Order
PointSub(p, q) == (p + Order - q) % Order
PointMul(p, s) == (p * s) % Order
ScalarAdd(a, b) == (a + b) % Order
\* &RISTRETTO_BASEPOINT_TABLE * &scalar
BaseMul(s) == PointMul(Generator, s)
\* clear_on_drop: Clear::clear overwrites the value with zeroes
Clear(s) == 0

\* ------------------------------------------------------------ pure functions
Message_from(source) == BaseMul(source)

Encryption_add_selfOnly(self, other) ==
    [commitment |-> PointAdd(self.commitment, other.commitment),
     encryption |-> self.encryption]

Encryption_add_sub(self, other) ==
    [commitment |-> PointAdd(self.commitment, other.commitment),
     encryption |-> PointSub(self.encryption, other.encryption)]

Encryption_add(self, other) ==
    [commitment |-> PointAdd(self.commitment, other.commitment),
     encryption |-> PointAdd(self.encryption, other.encryption)]

Ephemeral_from(source) == [state |-> "Live", bytes |-> source, drops |-> 0]

Ephemeral_default == [state |-> "Live", bytes |-> 0, drops |-> 0]

Ephemeral_drop_noClear(self) ==
    [self EXCEPT !.state = "Erased", !.drops = self.drops + 1]

Ephemeral_drop(self) ==
    [self EXCEPT !.state = "Erased", !.bytes = Clear(self.bytes), !.drops = self.drops + 1]

\* a function taking the Ephemeral by value owns it and drops it on return
Consumed(self) == Ephemeral_drop(self)

\* what the owner's Ephemeral is after a call that took it as &Ephemeral
Borrowed(self) == self

Ephemeral_mul_table(self) == BaseMul(self.bytes)

Table_mul_ephemeral(other) == BaseMul(other.bytes)

PublicKey_encrypt_swapped(self, message, nonce) ==
    [commitment |-> PointMul(self, nonce.bytes),
     encryption |-> PointAdd(message, BaseMul(nonce.bytes))]

PublicKey_encrypt(self, message, nonce) ==
    [commitment |-> BaseMul(nonce.bytes),
     encryption |-> PointAdd(message, PointMul(self, nonce.bytes))]

PublicKey_into_point(public) == public

PublicKey_from(secret) == BaseMul(secret)

SecretKey_generate(csprng) == csprng

SecretKey_decrypt_noMul(self, encryption) ==
    PointSub(encryption.encryption, encryption.commitment)

SecretKey_decrypt_add(self, encryption) ==
    LET secret == PointMul(encryption.commitment, self)
    IN  PointAdd(encryption.encryption, secret)

SecretKey_decrypt(self, encryption) ==
    LET secret == PointMul(encryption.commitment, self)
    IN  PointSub(encryption.encryption, secret)

SecretKey_into_scalar(secret) == secret

Keypair_generate_twoDraws(csprng) ==
    LET secret == SecretKey_generate(csprng)
        public == PublicKey_from(SecretKey_generate(ScalarAdd(csprng, 1)))
    IN  [secret |-> secret, public |-> public]

Keypair_generate(csprng) ==
    LET secret == SecretKey_generate(csprng)
        public == PublicKey_from(secret)
    IN  [secret |-> secret, public |-> public]

Keypair_encrypt_basepoint(self, message, nonce) == PublicKey_encrypt(Generator, message, nonce)

Keypair_encrypt(self, message, nonce) == PublicKey_encrypt(self.public, message, nonce)

\* ------------------------------------------------------------------- state
VARIABLES
    keypair,    \* None, or the Keypair [secret, public]
    msg,        \* per slot: None, or the Message's point
    scalar,     \* per slot: None, or the caller's scalar that was wrapped
    eph,        \* per slot: the Ephemeral: state, backing bytes, number of drops
    ct,         \* per slot: None, or the Encryption of msg under eph
    sum,        \* None, or the latest sum of Encryptions
    sumIn,      \* None, or the sum's operands, and the message point and nonce it accounts for
    returned,   \* None, or the latest call of decrypt or of a conversion:
                \* its function, its Encryption argument (or None), its result
    failed      \* a failure has unwound the caller

vars == <<keypair, msg, scalar, eph, ct, sum, sumIn, returned, failed>>

Uninitialized == [state |-> "Uninitialized", bytes |-> 0, drops |-> 0]

Init ==
    /\ keypair = None
    /\ msg = [i \in Slot |-> None]
    /\ scalar = [i \in Slot |-> None]
    /\ eph = [i \in Slot |-> Uninitialized]
    /\ ct = [i \in Slot |-> None]
    /\ sum = None
    /\ sumIn = None
    /\ returned = None
    /\ failed = FALSE

\* the nonce an encryption in slot i was made with, as the caller knows it
NonceOf(i) == IF scalar[i] = None THEN 0 ELSE scalar[i][1]

\* ----------------------------------------------------------------- actions
KeypairGenerate(csprng) ==
    /\ ~failed
    /\ keypair = None
    /\ keypair' = Some(Keypair_generate(csprng))
    /\ UNCHANGED <<msg, scalar, eph, ct, sum, sumIn, returned, failed>>

MessageFrom(i, source) ==
    /\ ~failed
    /\ msg[i] = None
    /\ msg' = [msg EXCEPT ![i] = Some(Message_from(source))]
    /\ UNCHANGED <<keypair, scalar, eph, ct, sum, sumIn, returned, failed>>

\* test::roundtrip: Message(&RISTRETTO_BASEPOINT_TABLE * &nonce)
MessageFromTableMulEphemeral(i, j) ==
    /\ ~failed
    /\ msg[i] = None
    /\ eph[j].state = "Live"
    /\ msg' = [msg EXCEPT ![i] = Some(Table_mul_ephemeral(eph[j]))]
    /\ eph' = [eph EXCEPT ![j] = Borrowed(eph[j])]
    /\ UNCHANGED <<keypair, scalar, ct, sum, sumIn, returned, failed>>

\* the same with the operands the other way round: &nonce * &RISTRETTO_BASEPOINT_TABLE
MessageFromEphemeralMulTable(i, j) ==
    /\ ~failed
    /\ msg[i] = None
    /\ eph[j].state = "Live"
    /\ msg' = [msg EXCEPT ![i] = Some(Ephemeral_mul_table(eph[j]))]
    /\ eph' = [eph EXCEPT ![j] = Borrowed(eph[j])]
    /\ UNCHANGED <<keypair, scalar, ct, sum, sumIn, returned, failed>>

\* the caller holds a scalar and wraps it: Scalar is a Copy type, from takes
\* its argument by value, and the caller's own scalar stays where it is
EphemeralFrom(i, source) ==
    /\ ~failed
    /\ eph[i].state = "Uninitialized"
    /\ scalar' = [scalar EXCEPT ![i] = Some(source)]
    /\ eph' = [eph EXCEPT ![i] = Ephemeral_from(source)]
    /\ UNCHANGED <<keypair, msg, ct, sum, sumIn, returned, failed>>

EphemeralDefault(i) ==
    /\ ~failed
    /\ eph[i].state = "Uninitialized"
    /\ eph' = [eph EXCEPT ![i] = Ephemeral_default]
    /\ UNCHANGED <<keypair, msg, scalar, ct, sum, sumIn, returned, failed>>

\* the scope owning the Ephemeral ends by a return, early (before the
\* encryption) or not: Drop::drop runs
ScopeExit(i) ==
    /\ ~failed
    /\ eph[i].state = "Live"
    /\ eph' = [eph EXCEPT ![i] = Ephemeral_drop(eph[i])]
    /\ UNCHANGED <<keypair, msg, scalar, ct, sum, sumIn, returned, failed>>

\* a failure propagates through the caller: unwinding ends every scope and
\* runs Drop::drop on every Ephemeral that is alive
Unwind ==
    /\ ~failed
    /\ failed' = TRUE
    /\ eph' = [i \in Slot |-> IF eph[i].state = "Live" THEN Ephemeral_drop(eph[i]) ELSE eph[i]]
    /\ UNCHANGED <<keypair, msg, scalar, ct, sum, sumIn, returned>>

PublicKeyEncrypt(i) ==
    /\ ~failed
    /\ keypair # None
    /\ msg[i] # None
    /\ eph[i].state = "Live"
    /\ ct' = [ct EXCEPT ![i] = Some(PublicKey_encrypt(keypair[1].public, msg[i][1], eph[i]))]
    /\ eph' = [eph EXCEPT ![i] = Borrowed(eph[i])]
    /\ UNCHANGED <<keypair, msg, scalar, sum, sumIn, returned, failed>>

KeypairEncrypt(i) ==
    /\ ~failed
    /\ keypair # None
    /\ msg[i] # None
    /\ eph[i].state = "Live"
    /\ ct' = [ct EXCEPT ![i] = Some(Keypair_encrypt(keypair[1], msg[i][1], eph[i]))]
    /\ eph' = [eph EXCEPT ![i] = Borrowed(eph[i])]
    /\ UNCHANGED <<keypair, msg, scalar, sum, sumIn, returned, failed>>

\* the sum of two slots' Encryptions; the caller keeps account of the summed
\* message point and the summed nonce
Add(x, y) ==
    /\ ~failed
    /\ ct[x] # None
    /\ ct[y] # None
    /\ sum' = Some(Encryption_add(ct[x][1], ct[y][1]))
    /\ sumIn' = Some([m |-> PointAdd(msg[x][1], msg[y][1]), n |-> ScalarAdd(NonceOf(x), NonceOf(y)),
                      lhs |-> ct[x][1], rhs |-> ct[y][1]])
    /\ UNCHANGED <<keypair, msg, scalar, eph, ct, returned, failed>>

\* what is decrypted: a slot's Encryption or (0) the sum
Operand == {0} \cup Slot
CtOf(o) == IF o = 0 THEN sum ELSE ct[o]

Decrypt(o) ==
    /\ ~failed
    /\ keypair # None
    /\ CtOf(o) # None
    /\ returned' = Some([fn |-> "decrypt", input |-> CtOf(o),
                         output |-> SecretKey_decrypt(keypair[1].secret, CtOf(o)[1])])
    /\ UNCHANGED <<keypair, msg, scalar, eph, ct, sum, sumIn, failed>>

\* Encryption's fields are pub: any pair of group elements is an Encryption
EncryptionLiteral(i, c, e) ==
    /\ ~failed
    /\ ct[i] = None
    /\ ct' = [ct EXCEPT ![i] = Some([commitment |-> c, encryption |-> e])]
    /\ UNCHANGED <<keypair, msg, scalar, eph, sum, sumIn, returned, failed>>

PublicKeyIntoPoint ==
    /\ ~failed
    /\ keypair # None
    /\ returned' = Some([fn |-> "RistrettoPoint::from", input |-> None,
                         output |-> PublicKey_into_point(keypair[1].public)])
    /\ UNCHANGED <<keypair, msg, scalar, eph, ct, sum, sumIn, failed>>

\* consumes a clone of the keypair's SecretKey
SecretKeyIntoScalar ==
    /\ ~failed
    /\ keypair # None
    /\ returned' = Some([fn |-> "Scalar::from", input |-> None,
                         output |-> SecretKey_into_scalar(keypair[1].secret)])
    /\ UNCHANGED <<keypair, msg, scalar, eph, ct, sum, sumIn, failed>>

\* a second derivation of the public key from the same SecretKey
PublicKeyFrom ==
    /\ ~failed
    /\ keypair # None
    /\ returned' = Some([fn |-> "PublicKey::from", input |-> None,
                         output |-> PublicKey_from(keypair[1].secret)])
    /\ UNCHANGED <<keypair, msg, scalar, eph, ct, sum, sumIn, failed>>

Next ==
    \/ \E s \in Scalar : KeypairGenerate(s)
    \/ \E i \in Slot, s \in Scalar : MessageFrom(i, s)
    \/ \E i \in Slot, j \in Slot : MessageFromTableMulEphemeral(i, j)
    \/ \E i \in Slot, j \in Slot : MessageFromEphemeralMulTable(i, j)
    \/ \E i \in Slot, s \in Scalar : EphemeralFrom(i, s)
    \/ \E i \in Slot : EphemeralDefault(i)
    \/ \E i \in Slot : ScopeExit(i)
    \/ Unwind
    \/ \E i \in Slot : PublicKeyEncrypt(i)
    \/ \E i \in Slot : KeypairEncrypt(i)
    \/ \E x \in Slot, y \in Slot : Add(x, y)
    \/ \E o \in Operand : Decrypt(o)
    \/ PublicKeyIntoPoint
    \/ SecretKeyIntoScalar
    \/ PublicKeyFrom

Spec == Init /\ [][Next]_vars

\* decryption of Encryption values made by hand, and the conversions
NextKeys ==
    \/ \E s \in Scalar : KeypairGenerate(s)
    \/ \E i \in Slot, c \in Point, e \in Point : EncryptionLiteral(i, c, e)
    \/ \E o \in Operand : Decrypt(o)
    \/ PublicKeyIntoPoint
    \/ SecretKeyIntoScalar
    \/ PublicKeyFrom

SpecKeys == Init /\ [][NextKeys]_vars

\* ------------------------------------------------------------------ claims
\* the Encryption values the caller holds
\* the latest call was a decrypt
Decrypted == returned # None /\ returned[1].fn = "decrypt"

Avail ==
    {ct[i][1] : i \in {j \in Slot : ct[j] # None}} \cup (IF sum = None THEN {} ELSE {sum[1]})

\* C1: decrypting, under the keypair's secret key, the Encryption that encrypt
\* made of a slot's message under the keypair's public key and the slot's
\* nonce gives back exactly the message's point.
C1_RoundTrip ==
    \A i \in Slot :
        (Decrypted /\ ct[i] # None /\ returned[1].input[1] = ct[i][1])
            => returned[1].output = msg[i][1]

\* an Encryption of a message whose scalar is the nonce itself (test::roundtrip),
\* under a secret key and a nonce that are not zero, has been decrypted
C1_Witness ==
    \E i \in Slot :
        /\ Decrypted /\ ct[i] # None /\ returned[1].input[1] = ct[i][1]
        /\ scalar[i] # None /\ scalar[i][1] # 0
        /\ msg[i][1] = PointMul(Generator, scalar[i][1])
        /\ keypair[1].secret # 0

\* C2: decrypting the sum of two slots' Encryptions, made under the same
\* keypair, gives the sum of the two message points.
C2_HomomorphicAdd ==
    \A i \in Slot, j \in Slot :
        (/\ Decrypted /\ ct[i] # None /\ ct[j] # None
         /\ returned[1].input[1] = Encryption_add(ct[i][1], ct[j][1]))
            => returned[1].output = PointAdd(msg[i][1], msg[j][1])

\* the sum of the Encryptions of two different messages under two different
\* nonces has been made by Add and decrypted
C2_Witness ==
    /\ Decrypted /\ sum # None /\ ct[1] # None /\ ct[2] # None
    /\ sumIn[1].lhs = ct[1][1] /\ sumIn[1].rhs = ct[2][1]
    /\ returned[1].input[1] = sum[1]
    /\ msg[1] # msg[2] /\ NonceOf(1) # NonceOf(2)
    /\ keypair[1].secret # 0

\* C3: an Ephemeral moves Uninitialized -> Live -> Erased; the end of the scope
\* owning a Live Ephemeral, by a return or by a failure that unwinds it,
\* overwrites its backing scalar with zero; no Ephemeral is Live after a
\* failure, and no step changes an Erased Ephemeral.
C3_ErasedOnEveryExit ==
    [][\A i \in Slot :
        /\ eph[i].state = "Uninitialized" => eph'[i].state \in {"Uninitialized", "Live"}
        /\ eph[i].state = "Live" => eph'[i].state \in {"Live", "Erased"}
        /\ eph[i].state = "Erased" => eph'[i] = eph[i]
        /\ (ScopeExit(i) \/ (Unwind /\ eph[i].state = "Live")) => eph'[i].state = "Erased"
        /\ eph'[i].state = "Erased" => eph'[i].bytes = 0
        /\ failed' => eph'[i].state # "Live"]_vars

\* of two Ephemerals wrapping scalars that are not zero, one was erased by a
\* return after its encryption, the other, not yet used, by a failure
C3_Witness ==
    \E i \in Slot, j \in Slot :
        /\ failed
        /\ eph[i].state = "Erased" /\ ct[i] = None /\ msg[i] # None
        /\ scalar[i] # None /\ scalar[i][1] # 0
        /\ eph[j].state = "Erased" /\ ct[j] # None
        /\ scalar[j] # None /\ scalar[j][1] # 0

\* C4: once the Ephemeral that wrapped the caller's scalar is erased, no
\* un-erased copy of the nonce is left in the caller's memory.
C4_WrapLeavesNoCopy ==
    \A i \in Slot :
        (eph[i].state = "Erased" /\ scalar[i] # None) => scalar[i][1] = 0

\* C5: encrypt returns commitment = generator * n and encryption = m + pk * n,
\* and a step of Keypair::encrypt is a step of encrypt on the keypair's
\* PublicKey.
C5_EncryptResult ==
    [][\A i \in Slot :
        /\ KeypairEncrypt(i) => PublicKeyEncrypt(i)
        /\ ct'[i] # None =>
              /\ ct'[i][1].commitment = PointMul(Generator, NonceOf(i)')
              /\ ct'[i][1].encryption =
                    PointAdd(msg'[i][1], PointMul(keypair'[1].public, NonceOf(i)'))]_vars

\* a message has been encrypted under a public key and a nonce none of which
\* is the neutral value
C5_Witness ==
    \E i \in Slot :
        /\ ct[i] # None /\ keypair[1].public # 0 /\ NonceOf(i) # 0 /\ msg[i][1] # 0
        /\ ct[i][1].commitment # 0

\* C6: encrypt (on a PublicKey or a Keypair) and the two by-reference
\* multiplications change neither the keypair, the message, the caller's
\* scalar nor the nonce: the Ephemeral stays Live with its value; an Ephemeral
\* changes from Live only by the end of its owner's scope, and is erased once.
C6_BorrowLeavesNonce ==
    [][\A i \in Slot :
        /\ (\/ PublicKeyEncrypt(i) \/ KeypairEncrypt(i)
            \/ \E j \in Slot : MessageFromTableMulEphemeral(j, i)
            \/ \E j \in Slot : MessageFromEphemeralMulTable(j, i))
              => /\ eph[i].state = "Live" /\ eph'[i] = eph[i]
                 /\ keypair' = keypair /\ scalar' = scalar
                 /\ msg[i] # None => msg'[i] = msg[i]
        /\ (ct'[i] # ct[i] \/ msg' # msg) => eph' = eph
        /\ (eph[i].state = "Live" /\ eph'[i] # eph[i]) => (ScopeExit(i) \/ Unwind)
        /\ eph'[i].drops = (IF eph'[i].state = "Erased" THEN 1 ELSE 0)]_vars

\* a nonce that is not zero was read by a multiplication with the basepoint
\* table and by an encryption, and is still Live with its value
C6_Witness ==
    \E i \in Slot :
        /\ ct[i] # None /\ scalar[i] # None /\ scalar[i][1] # 0
        /\ msg[i][1] = PointMul(Generator, scalar[i][1])
        /\ eph[i].state = "Live" /\ eph[i].bytes = scalar[i][1]

\* C7: the keypair's public key is generator * secret from its generation on,
\* no step changes the keypair, and a second derivation of the public key
\* from the same SecretKey gives the keypair's public key.
C7_KeypairInvariant ==
    [][/\ keypair # None => keypair' = keypair
       /\ keypair' # None =>
             keypair'[1].public = PointMul(Generator, keypair'[1].secret)
       /\ (returned' # None /\ returned'[1].fn = "PublicKey::from") =>
             /\ returned'[1].output = keypair'[1].public
             /\ returned'[1].output = PointMul(Generator, keypair'[1].secret)]_vars

\* a keypair with a secret key that is not zero has encrypted, added and
\* decrypted, and its public key was derived a second time
C7_Witness ==
    /\ keypair # None /\ keypair[1].secret # 0
    /\ sum # None /\ ct[1] # None /\ ct[2] # None
    /\ returned # None /\ returned[1].fn = "PublicKey::from"

\* C8: the Encryptions of the same message under the same public key with two
\* nonces that differ (modulo the group order) differ, and so do their
\* commitments.
C8_NonceIndependence ==
    \A i \in Slot, j \in Slot :
        (/\ ct[i] # None /\ ct[j] # None
         /\ msg[i] = msg[j] /\ NonceOf(i) # NonceOf(j))
            => /\ ct[i][1] # ct[j][1]
               /\ ct[i][1].commitment # ct[j][1].commitment

\* one message was encrypted under two different nonces
C8_Witness ==
    /\ ct[1] # None /\ ct[2] # None
    /\ msg[1] = msg[2] /\ NonceOf(1) # NonceOf(2)

\* C9: decrypt gives, for any pair of group elements, the group element that,
\* added to commitment * secret, is the pair's encryption component.
C9_DecryptTotal ==
    Decrypted =>
        /\ returned[1].output \in Point
        /\ PointAdd(returned[1].output,
                    PointMul(returned[1].input[1].commitment, keypair[1].secret))
              = returned[1].input[1].encryption

\* a pair of group elements made by hand, with a commitment and a secret key
\* that are not zero, has been decrypted to a point other than its encryption
\* component
C9_Witness ==
    /\ Decrypted /\ keypair[1].secret # 0
    /\ returned[1].input[1].commitment # 0
    /\ returned[1].output # returned[1].input[1].encryption

\* C10: the sum of two Encryptions is componentwise the sum of its operands
\* and is the Encryption, under the keypair's public key, of the summed
\* message point with the summed nonce; addition of the Encryptions held is
\* commutative and associative.
C10_AddIsEncryptionOfSums ==
    /\ sum # None =>
          /\ sum[1].commitment = PointAdd(sumIn[1].lhs.commitment, sumIn[1].rhs.commitment)
          /\ sum[1].encryption = PointAdd(sumIn[1].lhs.encryption, sumIn[1].rhs.encryption)
          /\ sum[1].commitment = PointMul(Generator, sumIn[1].n)
          /\ sum[1].encryption =
                PointAdd(sumIn[1].m, PointMul(keypair[1].public, sumIn[1].n))
    /\ \A a \in Avail, b \in Avail :
          Encryption_add(a, b) = Encryption_add(b, a)
    /\ \A a \in Avail, b \in Avail, c \in Avail :
          Encryption_add(Encryption_add(a, b), c) = Encryption_add(a, Encryption_add(b, c))

\* two Encryptions of different messages under different nonces were added
C10_Witness ==
    /\ sum # None /\ ct[1] # None /\ ct[2] # None
    /\ sumIn[1].lhs = ct[1][1] /\ sumIn[1].rhs = ct[2][1]
    /\ msg[1] # msg[2] /\ NonceOf(1) # NonceOf(2)
    /\ sumIn[1].m = PointAdd(msg[1][1], msg[2][1])
    /\ sumIn[1].n = ScalarAdd(NonceOf(1), NonceOf(2))
    /\ keypair[1].public # 0
====
